---- MODULE Spec2Model ----
(***************************************************************************)
(* Model of egs/speech_llm/ASR_LLM/whisper_llm_zh/multi_dataset.py:        *)
(* class MultiDataset, its constructor and its eleven accessors.           *)
(*                                                                         *)
(* Every accessor is translated statement by statement into a small        *)
(* program (loads, dictionary stores, the returned expression) which one   *)
(* interpreter runs against a file system.  The three library entry points *)
(* the module imports from lhotse (load_manifest_lazy, len of a lazy       *)
(* CutSet, CutSet.mux) are modelled by the interface the accessors rely    *)
(* on: opening yields a fresh handle, len and iteration read the file.     *)
(***************************************************************************)
EXTENDS Integers, Sequences, FiniteSets, TLC

VARIABLES fbank_dir, fs, eagerOpen, ncalls, cur, kept, iterated

vars == <<fbank_dir, fs, eagerOpen, ncalls, cur, kept, iterated>>

(* ------------------------------ bounds --------------------------------- *)

\* number of accessor calls made on the one MultiDataset object
MaxCalls == 2

\* the i-th manifest of the directory holds i * scale cuts, scale \in 0..MaxScale
MaxScale == 1

(* --------------------------- the environment --------------------------- *)

DefaultRoot == "data/fbank"

Roots == {DefaultRoot, "/mnt/manifests"}

\* pathlib.Path.__truediv__ for a relative right operand
Join(dir, name) == dir \o "/" \o name

SpeechioFiles ==
    [i \in 1..27 |->
        "speechio_cuts_SPEECHIO_ASR_ZH000"
            \o (IF i - 1 < 10 THEN "0" ELSE "") \o ToString(i - 1) \o ".jsonl.gz"]

\* every manifest the class expects below its root, relative to the root
ManifestFiles ==
    << "aishell_cuts_train.jsonl.gz",
       "aishell2_cuts_train.jsonl.gz",
       "aishell4_cuts_train_L.jsonl.gz",
       "aishell4_cuts_train_M.jsonl.gz",
       "aishell4_cuts_train_S.jsonl.gz",
       "alimeeting-far_cuts_train.jsonl.gz",
       "magicdata_cuts_train.jsonl.gz",
       "primewords_cuts_train.jsonl.gz",
       "stcmds_cuts_train.jsonl.gz",
       "thchs_30_cuts_train.jsonl.gz",
       "kespeech/kespeech-asr_cuts_train_phase1.jsonl.gz",
       "kespeech/kespeech-asr_cuts_train_phase2.jsonl.gz",
       "wenetspeech/cuts_L_fixed.jsonl.gz",
       "wenetspeech/cuts_DEV_fixed.jsonl.gz",
       "aishell_cuts_test.jsonl.gz",
       "aishell_cuts_dev.jsonl.gz",
       "aishell2_cuts_test.jsonl.gz",
       "aishell2_cuts_dev.jsonl.gz",
       "aishell4_cuts_test.jsonl.gz",
       "alimeeting-far_cuts_test.jsonl.gz",
       "alimeeting-far_cuts_eval.jsonl.gz",
       "magicdata_cuts_test.jsonl.gz",
       "magicdata_cuts_dev.jsonl.gz",
       "kespeech/kespeech-asr_cuts_test.jsonl.gz",
       "kespeech/kespeech-asr_cuts_dev_phase1.jsonl.gz",
       "kespeech/kespeech-asr_cuts_dev_phase2.jsonl.gz",
       "wenetspeech/cuts_TEST_MEETING.jsonl.gz",
       "wenetspeech/cuts_TEST_NET.jsonl.gz" >> \o SpeechioFiles

\* the directories a MultiDataset may be pointed at: complete, one manifest
\* absent, or empty
MissingChoices ==
    {{}} \cup {{i} : i \in DOMAIN ManifestFiles} \cup {DOMAIN ManifestFiles}

\* the file system below root: path -> number of cuts in the manifest
FileSystem(root, missing, scale) ==
    [p \in {Join(root, ManifestFiles[i]) : i \in DOMAIN ManifestFiles \ missing} |->
        LET i == CHOOSE j \in DOMAIN ManifestFiles : Join(root, ManifestFiles[j]) = p
        IN  i * scale]

Exists(path) == path \in DOMAIN fs

(* ------------------------------ lhotse --------------------------------- *)

NoExc == [type |-> "none", path |-> ""]

FileNotFoundError(path) == [type |-> "FileNotFoundError", path |-> path]

\* load_manifest_lazy(path): a new CutSet object on the manifest; whether a
\* missing file is noticed here or only when the file is read depends on the
\* loader (eagerOpen)
load_manifest_lazy(path, id) ==
    IF eagerOpen /\ ~Exists(path)
    THEN [exc |-> FileNotFoundError(path), value |-> [id |-> id, path |-> path]]
    ELSE [exc |-> NoExc, value |-> [id |-> id, path |-> path]]

\* len(cuts) of a lazy CutSet counts the records of its manifest
len(cuts) ==
    IF ~Exists(cuts.path)
    THEN [exc |-> FileNotFoundError(cuts.path), value |-> 0]
    ELSE [exc |-> NoExc, value |-> fs[cuts.path]]

\* iterating a lazy CutSet reads its manifest
iter(cuts) ==
    IF Exists(cuts.path) THEN "ok" ELSE "FileNotFoundError"

\* CutSet.mux(*sources, weights=weights)
mux(sources, weights) ==
    [shape |-> "mux", sources |-> sources, weights |-> weights]

(* --------------------------- the interpreter --------------------------- *)

Load(var, path) == [op |-> "load", var |-> var, arg |-> path]

SetItem(key, var) == [op |-> "setitem", var |-> var, arg |-> key]

LenOf(var) == [op |-> "len", var |-> var, arg |-> ""]

\* name = value in a Python namespace or dict
Bind(f, name, value) ==
    [n \in DOMAIN f \cup {name} |-> IF n = name THEN value ELSE f[n]]

EmptyFrame ==
    [env |-> <<>>, results_dict |-> <<>>, weights |-> <<>>,
     opened |-> <<>>, read |-> <<>>, exc |-> NoExc]

\* variant: the objects of the first call are handed out again
NewId_cached(fr) == <<1, Len(fr.opened) + 1>>

\* the identity of the object the next load_manifest_lazy of this call makes
NewId(fr) == <<ncalls + 1, Len(fr.opened) + 1>>

Step(s, fr) ==
    CASE s.op = "load" ->
            LET r == load_manifest_lazy(s.arg, NewId(fr))
            IN  IF r.exc # NoExc
                THEN [fr EXCEPT !.opened = Append(@, s.arg), !.exc = r.exc]
                ELSE [fr EXCEPT !.opened = Append(@, s.arg),
                                !.env = Bind(@, s.var, r.value)]
      [] s.op = "len" ->
            LET r == len(fr.env[s.var])
            IN  IF r.exc # NoExc
                THEN [fr EXCEPT !.read = Append(@, fr.env[s.var].path), !.exc = r.exc]
                ELSE [fr EXCEPT !.read = Append(@, fr.env[s.var].path),
                                !.weights = Append(@, r.value)]
      [] s.op = "setitem" ->
            [fr EXCEPT !.results_dict = Bind(@, s.arg, fr.env[s.var])]

\* statements run in order; an exception ends the frame
RECURSIVE Run(_, _)
Run(stmts, fr) ==
    IF stmts = <<>> \/ fr.exc # NoExc
    THEN fr
    ELSE Run(Tail(stmts), Step(Head(stmts), fr))

NoValue == [shape |-> "none"]

\* variant: a mapping is returned without the partitions whose manifest is absent
Return_skip_absent(ret, fr) ==
    LET present(d) == [k \in {n \in DOMAIN d : Exists(d[n].path)} |-> d[k]]
    IN  CASE ret.kind = "var" ->
                [frame |-> fr, value |-> [shape |-> "CutSet", cuts |-> fr.env[ret.var]]]
          [] ret.kind = "results_dict" ->
                [frame |-> fr,
                 value |-> [shape |-> "dict", items |-> present(fr.results_dict)]]
          [] ret.kind = "dict" ->
                LET fr2 == Run([i \in DOMAIN ret.entries |->
                                   SetItem(ret.entries[i][1], ret.entries[i][2])], fr)
                IN  [frame |-> fr2,
                     value |-> [shape |-> "dict", items |-> present(fr2.results_dict)]]
          [] ret.kind = "mux" ->
                LET fr2 == Run([i \in DOMAIN ret.weights |-> LenOf(ret.weights[i])], fr)
                IN  [frame |-> fr2,
                     value |-> IF fr2.exc # NoExc THEN NoValue
                               ELSE mux([i \in DOMAIN ret.sources |-> fr.env[ret.sources[i]]],
                                        fr2.weights)]

\* the return statement: its expression is evaluated left to right
Return(ret, fr) ==
    CASE ret.kind = "var" ->
            [frame |-> fr, value |-> [shape |-> "CutSet", cuts |-> fr.env[ret.var]]]
      [] ret.kind = "results_dict" ->
            [frame |-> fr, value |-> [shape |-> "dict", items |-> fr.results_dict]]
      [] ret.kind = "dict" ->
            LET fr2 == Run([i \in DOMAIN ret.entries |->
                               SetItem(ret.entries[i][1], ret.entries[i][2])], fr)
            IN  [frame |-> fr2, value |-> [shape |-> "dict", items |-> fr2.results_dict]]
      [] ret.kind = "mux" ->
            LET fr2 == Run([i \in DOMAIN ret.weights |-> LenOf(ret.weights[i])], fr)
            IN  [frame |-> fr2,
                 value |-> IF fr2.exc # NoExc THEN NoValue
                           ELSE mux([i \in DOMAIN ret.sources |-> fr.env[ret.sources[i]]],
                                    fr2.weights)]

\* one accessor call, from entry to return or raise
Invoke(prog) ==
    LET fr1 == Run(prog.body, EmptyFrame)
        out == IF fr1.exc # NoExc
               THEN [frame |-> fr1, value |-> NoValue]
               ELSE Return(prog.ret, fr1)
    IN  [acc    |-> prog.name,
         status |-> IF out.frame.exc = NoExc THEN "returned" ELSE "raised",
         value  |-> out.value,
         opened |-> out.frame.opened,
         read   |-> out.frame.read,
         exc    |-> out.frame.exc]

(* ---------------------------- MultiDataset ----------------------------- *)

\* self.fbank_dir / name
Manifest(name) == Join(fbank_dir, name)

\* self.fbank_dir / dir / name
ManifestIn(dir, name) == Join(Join(fbank_dir, dir), name)

train_cuts_loads ==
             << Load("thchs_30_cuts", Manifest("thchs_30_cuts_train.jsonl.gz")),
                 Load("aishell_cuts", Manifest("aishell_cuts_train.jsonl.gz")),
                 Load("aishell_2_cuts", Manifest("aishell2_cuts_train.jsonl.gz")),
                 Load("aishell_4_L_cuts", Manifest("aishell4_cuts_train_L.jsonl.gz")),
                 Load("aishell_4_M_cuts", Manifest("aishell4_cuts_train_M.jsonl.gz")),
                 Load("aishell_4_S_cuts", Manifest("aishell4_cuts_train_S.jsonl.gz")),
                 Load("stcmds_cuts", Manifest("stcmds_cuts_train.jsonl.gz")),
                 Load("primewords_cuts", Manifest("primewords_cuts_train.jsonl.gz")),
                 Load("magicdata_cuts", Manifest("magicdata_cuts_train.jsonl.gz")),
                 Load("alimeeting_cuts", Manifest("alimeeting-far_cuts_train.jsonl.gz")),
                 Load("wenetspeech_L_cuts", ManifestIn("wenetspeech", "cuts_L_fixed.jsonl.gz")),
                 Load("kespeech_1_cuts",
                      ManifestIn("kespeech", "kespeech-asr_cuts_train_phase1.jsonl.gz")),
                 Load("kespeech_2_cuts",
                      ManifestIn("kespeech", "kespeech-asr_cuts_train_phase2.jsonl.gz")) >>

\* the positional arguments of CutSet.mux
train_cuts_sources ==
    << "thchs_30_cuts", "aishell_cuts", "aishell_2_cuts",
       "aishell_4_L_cuts", "aishell_4_M_cuts", "aishell_4_S_cuts",
       "alimeeting_cuts", "stcmds_cuts", "primewords_cuts",
       "magicdata_cuts", "wenetspeech_L_cuts",
       "kespeech_1_cuts", "kespeech_2_cuts" >>

\* variant: the weights follow the order of the loads, not of the sources
train_cuts_weights_load_order ==
    << "thchs_30_cuts", "aishell_cuts", "aishell_2_cuts",
       "aishell_4_L_cuts", "aishell_4_M_cuts", "aishell_4_S_cuts",
       "stcmds_cuts", "primewords_cuts", "magicdata_cuts", "alimeeting_cuts",
       "wenetspeech_L_cuts", "kespeech_1_cuts", "kespeech_2_cuts" >>

\* variant: CutSet.mux is called without weights
train_cuts_weights_none == <<>>

\* variant: the last weight is forgotten
train_cuts_weights_short ==
    << "thchs_30_cuts", "aishell_cuts", "aishell_2_cuts",
       "aishell_4_L_cuts", "aishell_4_M_cuts", "aishell_4_S_cuts",
       "alimeeting_cuts", "stcmds_cuts", "primewords_cuts",
       "magicdata_cuts", "wenetspeech_L_cuts", "kespeech_1_cuts" >>

\* weights=[len(...), ...]: the collections whose len is taken, in order
train_cuts_weights ==
    << "thchs_30_cuts", "aishell_cuts", "aishell_2_cuts",
       "aishell_4_L_cuts", "aishell_4_M_cuts", "aishell_4_S_cuts",
       "alimeeting_cuts", "stcmds_cuts", "primewords_cuts",
       "magicdata_cuts", "wenetspeech_L_cuts",
       "kespeech_1_cuts", "kespeech_2_cuts" >>

train_cuts ==
    [name |-> "train_cuts",
     body |-> train_cuts_loads,
     ret  |-> [kind |-> "mux",
               sources |-> train_cuts_sources,
               weights |-> train_cuts_weights]]

\* variant: the dev set is read from the training manifest of WeNetSpeech
dev_cuts_on_train ==
    [name |-> "dev_cuts",
     body |-> << Load("wenetspeech_dev_cuts",
                      ManifestIn("wenetspeech", "cuts_L_fixed.jsonl.gz")) >>,
     ret  |-> [kind |-> "var", var |-> "wenetspeech_dev_cuts"]]

dev_cuts ==
    [name |-> "dev_cuts",
     body |-> << Load("wenetspeech_dev_cuts",
                      ManifestIn("wenetspeech", "cuts_DEV_fixed.jsonl.gz")) >>,
     ret  |-> [kind |-> "var", var |-> "wenetspeech_dev_cuts"]]

test_cuts_loads ==
             << Load("aishell_test_cuts", Manifest("aishell_cuts_test.jsonl.gz")),
                 Load("aishell_dev_cuts", Manifest("aishell_cuts_dev.jsonl.gz")),
                 Load("aishell2_test_cuts", Manifest("aishell2_cuts_test.jsonl.gz")),
                 Load("aishell2_dev_cuts", Manifest("aishell2_cuts_dev.jsonl.gz")),
                 Load("aishell4_test_cuts", Manifest("aishell4_cuts_test.jsonl.gz")),
                 Load("alimeeting_test_cuts", Manifest("alimeeting-far_cuts_test.jsonl.gz")),
                 Load("alimeeting_eval_cuts", Manifest("alimeeting-far_cuts_eval.jsonl.gz")),
                 Load("magicdata_test_cuts", Manifest("magicdata_cuts_test.jsonl.gz")),
                 Load("magicdata_dev_cuts", Manifest("magicdata_cuts_dev.jsonl.gz")),
                 Load("kespeech_test_cuts",
                      ManifestIn("kespeech", "kespeech-asr_cuts_test.jsonl.gz")),
                 Load("kespeech_dev_phase1_cuts",
                      ManifestIn("kespeech", "kespeech-asr_cuts_dev_phase1.jsonl.gz")),
                 Load("kespeech_dev_phase2_cuts",
                      ManifestIn("kespeech", "kespeech-asr_cuts_dev_phase2.jsonl.gz")),
                 Load("wenetspeech_test_meeting_cuts",
                      ManifestIn("wenetspeech", "cuts_TEST_MEETING.jsonl.gz")),
                 Load("wenetspeech_test_net_cuts",
                      ManifestIn("wenetspeech", "cuts_TEST_NET.jsonl.gz")),
                 Load("wenetspeech_dev_cuts",
                      ManifestIn("wenetspeech", "cuts_DEV_fixed.jsonl.gz")) >>

\* variant: aishell-2_dev is given the AISHELL-1 dev collection
test_cuts_entries_copy_paste ==
                           << <<"wenetspeech-meeting_test", "wenetspeech_test_meeting_cuts">>,
                              <<"aishell_test", "aishell_test_cuts">>,
                              <<"aishell_dev", "aishell_dev_cuts">>,
                              <<"ali-meeting_test", "alimeeting_test_cuts">>,
                              <<"ali-meeting_eval", "alimeeting_eval_cuts">>,
                              <<"aishell-4_test", "aishell4_test_cuts">>,
                              <<"aishell-2_test", "aishell2_test_cuts">>,
                              <<"aishell-2_dev", "aishell_dev_cuts">>,
                              <<"magicdata_test", "magicdata_test_cuts">>,
                              <<"magicdata_dev", "magicdata_dev_cuts">>,
                              <<"kespeech-asr_test", "kespeech_test_cuts">>,
                              <<"kespeech-asr_dev_phase1", "kespeech_dev_phase1_cuts">>,
                              <<"kespeech-asr_dev_phase2", "kespeech_dev_phase2_cuts">>,
                              <<"wenetspeech-net_test", "wenetspeech_test_net_cuts">>,
                              <<"wenetspeech_dev", "wenetspeech_dev_cuts">> >>

\* the returned dict literal
test_cuts_entries ==
                           << <<"wenetspeech-meeting_test", "wenetspeech_test_meeting_cuts">>,
                              <<"aishell_test", "aishell_test_cuts">>,
                              <<"aishell_dev", "aishell_dev_cuts">>,
                              <<"ali-meeting_test", "alimeeting_test_cuts">>,
                              <<"ali-meeting_eval", "alimeeting_eval_cuts">>,
                              <<"aishell-4_test", "aishell4_test_cuts">>,
                              <<"aishell-2_test", "aishell2_test_cuts">>,
                              <<"aishell-2_dev", "aishell2_dev_cuts">>,
                              <<"magicdata_test", "magicdata_test_cuts">>,
                              <<"magicdata_dev", "magicdata_dev_cuts">>,
                              <<"kespeech-asr_test", "kespeech_test_cuts">>,
                              <<"kespeech-asr_dev_phase1", "kespeech_dev_phase1_cuts">>,
                              <<"kespeech-asr_dev_phase2", "kespeech_dev_phase2_cuts">>,
                              <<"wenetspeech-net_test", "wenetspeech_test_net_cuts">>,
                              <<"wenetspeech_dev", "wenetspeech_dev_cuts">> >>

test_cuts ==
    [name |-> "test_cuts",
     body |-> test_cuts_loads,
     ret  |-> [kind |-> "dict", entries |-> test_cuts_entries]]

aishell_train_cuts ==
    [name |-> "aishell_train_cuts",
     body |-> << Load("aishell_cuts", Manifest("aishell_cuts_train.jsonl.gz")) >>,
     ret  |-> [kind |-> "var", var |-> "aishell_cuts"]]

aishell_dev_cuts ==
    [name |-> "aishell_dev_cuts",
     body |-> << Load("aishell_dev_cuts", Manifest("aishell_cuts_dev.jsonl.gz")) >>,
     ret  |-> [kind |-> "var", var |-> "aishell_dev_cuts"]]

aishell_test_cuts ==
    [name |-> "aishell_test_cuts",
     body |-> << Load("aishell_test_cuts", Manifest("aishell_cuts_test.jsonl.gz")) >>,
     ret  |-> [kind |-> "dict",
               entries |-> << <<"aishell_test", "aishell_test_cuts">> >>]]

aishell2_train_cuts ==
    [name |-> "aishell2_train_cuts",
     body |-> << Load("aishell_2_cuts", Manifest("aishell2_cuts_train.jsonl.gz")) >>,
     ret  |-> [kind |-> "var", var |-> "aishell_2_cuts"]]

\* variant: the AISHELL-2 dev accessor opens the AISHELL-1 dev manifest
aishell2_dev_cuts_copy_paste ==
    [name |-> "aishell2_dev_cuts",
     body |-> << Load("aishell2_dev_cuts", Manifest("aishell_cuts_dev.jsonl.gz")) >>,
     ret  |-> [kind |-> "var", var |-> "aishell2_dev_cuts"]]

aishell2_dev_cuts ==
    [name |-> "aishell2_dev_cuts",
     body |-> << Load("aishell2_dev_cuts", Manifest("aishell2_cuts_dev.jsonl.gz")) >>,
     ret  |-> [kind |-> "var", var |-> "aishell2_dev_cuts"]]

aishell2_test_cuts ==
    [name |-> "aishell2_test_cuts",
     body |-> << Load("aishell2_test_cuts", Manifest("aishell2_cuts_test.jsonl.gz")) >>,
     ret  |-> [kind |-> "dict",
               entries |-> << <<"aishell2_test", "aishell2_test_cuts">> >>]]

wenetspeech_test_meeting_cuts ==
    [name |-> "wenetspeech_test_meeting_cuts",
     body |-> << Load("wenetspeech_test_meeting_cuts",
                      ManifestIn("wenetspeech", "cuts_TEST_MEETING.jsonl.gz")) >>,
     ret  |-> [kind |-> "dict",
               entries |-> << <<"wenetspeech-meeting_test",
                                "wenetspeech_test_meeting_cuts">> >>]]

start_index == 0

end_index == 26

RECURSIVE zfill_pad(_, _)
zfill_pad(s, width) == IF Len(s) < width THEN zfill_pad("0" \o s, width) ELSE s

\* str.zfill(width) on the decimal digits of a non-negative integer
zfill(s, width) == IF Len(s) < width THEN zfill_pad(s, width) ELSE s

\* range(start, stop) as a sequence
range(start, stop) == [k \in 1..(stop - start) |-> start + k - 1]

\* variant: the range stops before end_index
dataset_parts_exclusive ==
    LET r == range(start_index, end_index)
    IN  [k \in DOMAIN r |-> "SPEECHIO_ASR_ZH000" \o zfill(ToString(r[k]), 2)]

dataset_parts ==
    LET r == range(start_index, end_index + 1)
    IN  [k \in DOMAIN r |-> "SPEECHIO_ASR_ZH000" \o zfill(ToString(r[k]), 2)]

speechio_test_cuts ==
    LET prefix == "speechio"
        suffix == "jsonl.gz"
        path(partition) == prefix \o "_cuts_" \o partition \o "." \o suffix
    IN  [name |-> "speechio_test_cuts",
         body |-> [k \in 1..(2 * Len(dataset_parts)) |->
                      LET partition == dataset_parts[(k + 1) \div 2]
                      IN  IF k % 2 = 1
                          THEN Load("test_cuts", Manifest(path(partition)))
                          ELSE SetItem(partition, "test_cuts")],
         ret  |-> [kind |-> "results_dict"]]

(* ------------------------------ the caller ----------------------------- *)

NoCall ==
    [acc |-> "none", status |-> "none", value |-> NoValue,
     opened |-> <<>>, read |-> <<>>, exc |-> NoExc]

NoIter == [cuts |-> [id |-> <<0, 0>>, path |-> ""], outcome |-> "none"]

\* the lazy CutSet objects a returned value holds
Handles(value) ==
    CASE value.shape = "CutSet" -> {value.cuts}
      [] value.shape = "dict"   -> {value.items[k] : k \in DOMAIN value.items}
      [] value.shape = "mux"    -> {value.sources[i] : i \in DOMAIN value.sources}
      [] OTHER                  -> {}

\* MultiDataset(fbank_dir) on some directory; nothing is touched yet
Init ==
    /\ fbank_dir \in Roots
    /\ eagerOpen \in BOOLEAN
    /\ \E missing \in MissingChoices, scale \in 0..MaxScale :
          /\ missing # {} => scale = 1
          /\ fs = FileSystem(fbank_dir, missing, scale)
    /\ ncalls = 0
    /\ cur = NoCall
    /\ kept = NoCall
    /\ iterated = NoIter

Call(prog) ==
    /\ ncalls < MaxCalls
    /\ cur' = Invoke(prog)
    /\ ncalls' = ncalls + 1
    /\ iterated' = NoIter
    /\ UNCHANGED <<fbank_dir, fs, eagerOpen, kept>>

TrainCuts == Call(train_cuts)

DevCuts == Call(dev_cuts)

TestCuts == Call(test_cuts)

AishellTrainCuts == Call(aishell_train_cuts)

AishellDevCuts == Call(aishell_dev_cuts)

AishellTestCuts == Call(aishell_test_cuts)

Aishell2TrainCuts == Call(aishell2_train_cuts)

Aishell2DevCuts == Call(aishell2_dev_cuts)

Aishell2TestCuts == Call(aishell2_test_cuts)

WenetspeechTestMeetingCuts == Call(wenetspeech_test_meeting_cuts)

SpeechioTestCuts == Call(speechio_test_cuts)

\* the caller holds on to the outcome of the call it just made
Keep ==
    /\ cur # NoCall
    /\ kept = NoCall
    /\ iterated = NoIter
    /\ kept' = cur
    /\ UNCHANGED <<fbank_dir, fs, eagerOpen, ncalls, cur, iterated>>

\* the caller iterates one of the collections it was handed (iterated keeps
\* the latest iteration only, so a second one reaches no further state)
Iterate ==
    /\ cur.status = "returned"
    /\ iterated = NoIter
    /\ \E h \in Handles(cur.value) :
          iterated' = [cuts |-> h, outcome |-> iter(h)]
    /\ UNCHANGED <<fbank_dir, fs, eagerOpen, ncalls, cur, kept>>

Next ==
    \/ TrainCuts
    \/ DevCuts
    \/ TestCuts
    \/ AishellTrainCuts
    \/ AishellDevCuts
    \/ AishellTestCuts
    \/ Aishell2TrainCuts
    \/ Aishell2DevCuts
    \/ Aishell2TestCuts
    \/ WenetspeechTestMeetingCuts
    \/ SpeechioTestCuts
    \/ Keep
    \/ Iterate

Spec == Init /\ [][Next]_vars

(* ------------------------------ properties ----------------------------- *)

Range(seq) == {seq[i] : i \in DOMAIN seq}

Returned(call, name) == call.acc = name /\ call.status = "returned"

\* the thirteen training manifests the constructor's docstring lists
TrainManifests == {Manifest(ManifestFiles[i]) : i \in 1..13}

\* C1: on a root holding all 13 training manifests, train_cuts() returns a
\* weighted union of exactly 13 sources with 13 weights, and the i-th weight
\* is the number of cuts of the i-th source.
C1_TrainUnionWeights ==
    (cur.acc = "train_cuts" /\ TrainManifests \subseteq DOMAIN fs) =>
        /\ cur.status = "returned"
        /\ cur.value.shape = "mux"
        /\ Len(cur.value.sources) = 13
        /\ Len(cur.value.weights) = 13
        /\ {cur.value.sources[i].path : i \in 1..13} = TrainManifests
        /\ \A i \in 1..13 : cur.value.weights[i] = fs[cur.value.sources[i].path]

\* train_cuts() has returned a union whose sources differ in size
C1_Witness ==
    /\ Returned(cur, "train_cuts")
    /\ \A i, j \in 1..13 : i # j => cur.value.weights[i] # cur.value.weights[j]

\* C2 (as stated): no accessor call reads manifest content before it returns.
C2_NoReadInsideAnyCall == cur.read = <<>>

\* C2 (amended): every accessor but train_cuts only opens its manifests, so
\* no read and no failure of a read happens inside the call; train_cuts takes
\* len() of each of its 13 collections before it returns, so every training
\* manifest is read inside the call and a failing read is raised by the call.
C2_OnlyTrainCutsReadsInsideCall ==
    /\ cur.acc # "train_cuts" =>
          /\ cur.read = <<>>
          /\ cur.status = "raised" => eagerOpen
    /\ Returned(cur, "train_cuts") =>
          /\ Len(cur.read) = 13
          /\ \A i \in 1..13 : cur.read[i] = cur.value.sources[i].path
    /\ (cur.acc = "train_cuts" /\ cur.status = "raised" /\ ~eagerOpen) =>
          /\ cur.read # <<>>
          /\ cur.exc = FileNotFoundError(cur.read[Len(cur.read)])

\* a lazily opened test_cuts() result was kept although a manifest of it is
\* absent, and a later train_cuts() has read all its manifests
C2_Witness ==
    /\ Returned(kept, "test_cuts")
    /\ \E h \in Handles(kept.value) : ~Exists(h.path)
    /\ Returned(cur, "train_cuts")
    /\ Len(cur.read) = 13

\* C3: when a training manifest is absent, train_cuts() raises not-found and
\* returns nothing, whatever the loader's laziness.
C3_TrainAllOrNothing ==
    (cur.acc = "train_cuts" /\ ~(TrainManifests \subseteq DOMAIN fs)) =>
        /\ cur.status = "raised"
        /\ cur.value = NoValue
        /\ cur.exc.type = "FileNotFoundError"
        /\ cur.exc.path \in TrainManifests \ DOMAIN fs

\* train_cuts() failed on a lazily opened manifest that is the only one absent
C3_Witness ==
    /\ cur.acc = "train_cuts"
    /\ cur.status = "raised"
    /\ ~eagerOpen
    /\ Cardinality(TrainManifests \ DOMAIN fs) = 1
    /\ Len(cur.opened) = 13

\* the manifest each test_cuts() partition is documented to come from
TestPartitionFile ==
    [k \in {"wenetspeech-meeting_test", "aishell_test", "aishell_dev",
            "ali-meeting_test", "ali-meeting_eval", "aishell-4_test",
            "aishell-2_test", "aishell-2_dev", "magicdata_test", "magicdata_dev",
            "kespeech-asr_test", "kespeech-asr_dev_phase1",
            "kespeech-asr_dev_phase2", "wenetspeech-net_test", "wenetspeech_dev"} |->
        CASE k = "wenetspeech-meeting_test" -> "wenetspeech/cuts_TEST_MEETING.jsonl.gz"
          [] k = "aishell_test"             -> "aishell_cuts_test.jsonl.gz"
          [] k = "aishell_dev"              -> "aishell_cuts_dev.jsonl.gz"
          [] k = "ali-meeting_test"         -> "alimeeting-far_cuts_test.jsonl.gz"
          [] k = "ali-meeting_eval"         -> "alimeeting-far_cuts_eval.jsonl.gz"
          [] k = "aishell-4_test"           -> "aishell4_cuts_test.jsonl.gz"
          [] k = "aishell-2_test"           -> "aishell2_cuts_test.jsonl.gz"
          [] k = "aishell-2_dev"            -> "aishell2_cuts_dev.jsonl.gz"
          [] k = "magicdata_test"           -> "magicdata_cuts_test.jsonl.gz"
          [] k = "magicdata_dev"            -> "magicdata_cuts_dev.jsonl.gz"
          [] k = "kespeech-asr_test"        -> "kespeech/kespeech-asr_cuts_test.jsonl.gz"
          [] k = "kespeech-asr_dev_phase1"  -> "kespeech/kespeech-asr_cuts_dev_phase1.jsonl.gz"
          [] k = "kespeech-asr_dev_phase2"  -> "kespeech/kespeech-asr_cuts_dev_phase2.jsonl.gz"
          [] k = "wenetspeech-net_test"     -> "wenetspeech/cuts_TEST_NET.jsonl.gz"
          [] k = "wenetspeech_dev"          -> "wenetspeech/cuts_DEV_fixed.jsonl.gz"]

\* C4: test_cuts() returns a mapping with exactly the 15 partition names, each
\* on its own manifest under the root, no manifest under two names.
C4_TestCutsPartitions ==
    Returned(cur, "test_cuts") =>
        /\ cur.value.shape = "dict"
        /\ DOMAIN cur.value.items = DOMAIN TestPartitionFile
        /\ Cardinality(DOMAIN cur.value.items) = 15
        /\ \A k \in DOMAIN cur.value.items :
              cur.value.items[k].path = fbank_dir \o "/" \o TestPartitionFile[k]
        /\ \A k1, k2 \in DOMAIN cur.value.items :
              cur.value.items[k1].path = cur.value.items[k2].path => k1 = k2

\* test_cuts() has returned on a root other than the default one
C4_Witness == Returned(cur, "test_cuts") /\ fbank_dir # DefaultRoot

Digit == <<"0", "1", "2", "3", "4", "5", "6", "7", "8", "9">>

\* SPEECHIO_ASR_ZH000 followed by the two decimal digits of n
SpeechioName(n) == "SPEECHIO_ASR_ZH000" \o Digit[(n \div 10) + 1] \o Digit[(n % 10) + 1]

\* C5: speechio_test_cuts() returns exactly the 27 partitions
\* SPEECHIO_ASR_ZH00000 .. SPEECHIO_ASR_ZH00026, each on the file
\* speechio_cuts_<partition>.jsonl.gz directly under the root.
C5_SpeechioPartitions ==
    Returned(cur, "speechio_test_cuts") =>
        /\ cur.value.shape = "dict"
        /\ Cardinality(DOMAIN cur.value.items) = 27
        /\ DOMAIN cur.value.items = {SpeechioName(n) : n \in 0..26}
        /\ SpeechioName(27) \notin DOMAIN cur.value.items
        /\ \A k \in DOMAIN cur.value.items :
              cur.value.items[k].path =
                  fbank_dir \o "/speechio_cuts_" \o k \o ".jsonl.gz"

\* speechio_test_cuts() has returned and its last partition was iterated
C5_Witness ==
    /\ Returned(cur, "speechio_test_cuts")
    /\ iterated.outcome = "ok"
    /\ iterated.cuts = cur.value.items["SPEECHIO_ASR_ZH00026"]

Accessors ==
    {train_cuts, dev_cuts, test_cuts, aishell_train_cuts, aishell_dev_cuts,
     aishell_test_cuts, aishell2_train_cuts, aishell2_dev_cuts,
     aishell2_test_cuts, wenetspeech_test_meeting_cuts, speechio_test_cuts}

\* the manifests an accessor's body opens
Required(prog) == {prog.body[i].arg : i \in {j \in DOMAIN prog.body : prog.body[j].op = "load"}}

\* C6: when a manifest an accessor needs is absent, the call raises the
\* loader's not-found error, or it returns a result that still holds a
\* collection on the absent manifest (same number of entries as on a complete
\* root) whose iteration raises not-found.
C6_MissingFileNeverOmitted ==
    \A prog \in Accessors : \A p \in Required(prog) :
        (cur.acc = prog.name /\ ~Exists(p)) =>
            \/ /\ cur.status = "raised"
               /\ cur.value = NoValue
               /\ cur.exc.type = "FileNotFoundError"
               /\ ~Exists(cur.exc.path)
            \/ /\ cur.status = "returned"
               /\ \E h \in Handles(cur.value) : h.path = p
               /\ Cardinality(Handles(cur.value)) = Cardinality(Required(prog))
               /\ iterated.cuts.path = p => iterated.outcome = "FileNotFoundError"

\* a mapping was returned for a root lacking one of its manifests, and
\* iterating that partition failed
C6_Witness ==
    /\ cur.status = "returned"
    /\ cur.value.shape = "dict"
    /\ iterated.outcome = "FileNotFoundError"

\* a returned value without the identities of its collection objects
Logical(value) ==
    CASE value.shape = "CutSet" -> [shape |-> "CutSet", path |-> value.cuts.path]
      [] value.shape = "dict"   ->
            [shape |-> "dict",
             items |-> [k \in DOMAIN value.items |-> value.items[k].path]]
      [] value.shape = "mux"    ->
            [shape |-> "mux",
             sources |-> [i \in DOMAIN value.sources |-> value.sources[i].path],
             weights |-> value.weights]
      [] OTHER                  -> [shape |-> "none"]

NarrowAccessors ==
    [a \in {"aishell_train_cuts", "aishell_dev_cuts", "aishell_test_cuts",
            "aishell2_train_cuts", "aishell2_dev_cuts", "aishell2_test_cuts",
            "wenetspeech_test_meeting_cuts"} |->
        CASE a = "aishell_train_cuts"  -> <<"aishell_cuts_train.jsonl.gz", "CutSet">>
          [] a = "aishell_dev_cuts"    -> <<"aishell_cuts_dev.jsonl.gz", "CutSet">>
          [] a = "aishell_test_cuts"   -> <<"aishell_cuts_test.jsonl.gz", "dict">>
          [] a = "aishell2_train_cuts" -> <<"aishell2_cuts_train.jsonl.gz", "CutSet">>
          [] a = "aishell2_dev_cuts"   -> <<"aishell2_cuts_dev.jsonl.gz", "CutSet">>
          [] a = "aishell2_test_cuts"  -> <<"aishell2_cuts_test.jsonl.gz", "dict">>
          [] a = "wenetspeech_test_meeting_cuts" ->
                 <<"wenetspeech/cuts_TEST_MEETING.jsonl.gz", "dict">>]

C9_SamePartitionNames ==
    (/\ Returned(kept, "test_cuts")
     /\ cur.status = "returned"
     /\ cur.acc \in {"aishell_test_cuts", "aishell2_test_cuts",
                     "wenetspeech_test_meeting_cuts"}) =>
        \A k \in DOMAIN cur.value.items :
            /\ k \in DOMAIN kept.value.items
            /\ kept.value.items[k].path = cur.value.items[k].path

TrainAccessors == {"train_cuts", "aishell_train_cuts", "aishell2_train_cuts"}

EvalAccessors ==
    {"dev_cuts", "test_cuts", "speechio_test_cuts", "aishell_dev_cuts",
     "aishell_test_cuts", "aishell2_dev_cuts", "aishell2_test_cuts",
     "wenetspeech_test_meeting_cuts"}

\* C10: no manifest opened by a training accessor is opened by a dev/test
\* accessor, and the 13 manifests train_cuts() opens are pairwise distinct.
C10_TrainEvalDisjoint ==
    /\ ((kept.acc \in TrainAccessors /\ cur.acc \in EvalAccessors)
          \/ (kept.acc \in EvalAccessors /\ cur.acc \in TrainAccessors)) =>
          Range(kept.opened) \cap Range(cur.opened) = {}
    /\ Returned(cur, "train_cuts") =>
          /\ Cardinality(Range(cur.opened)) = 13
          /\ Cardinality({cur.value.sources[i].path : i \in 1..13}) = 13

\* train_cuts() returned and was kept, then test_cuts() returned
C10_Witness ==
    /\ Returned(kept, "train_cuts")
    /\ Returned(cur, "test_cuts")

====
